---- MODULE Spec2Model ----
(***************************************************************************)
(* The cascade engine of gaphor.core.styling: CompiledStyleSheet, its      *)
(* match operation, merge_styles and resolve_variables.                    *)
(*                                                                         *)
(* A Style is a function from property names to values.  A value is a      *)
(* record tagged by its Python type (field t).  Numbers are exact          *)
(* rationals n/d.                                                          *)
(***************************************************************************)
EXTENDS Integers, Sequences, FiniteSets, TLC

VARIABLES css, selectors, matched

vars == <<css, selectors, matched>>

\* ---------------------------------------------------------------- bounds
\* Most rules the compiler hands over for one style sheet.
MaxRules == 3
\* Number of style sheet texts given to the constructor.
NumTexts == 2

\* ---------------------------------------------------------- value domain
None == [t |-> "none"]
Num(n, d) == [t |-> "num", n |-> n, d |-> d]
Str(s) == [t |-> "str", s |-> s]
NumSeq(q) == [t |-> "seq", q |-> q]
\* A Color is the 4-tuple (r, g, b, a); the alpha channel is an/ad.
Color(r, g, b, an, ad) == [t |-> "color", r |-> r, g |-> g, b |-> b, an |-> an, ad |-> ad]
Var(name) == [t |-> "var", name |-> name]
SubStyle(st) == [t |-> "style", st |-> st]
Obj(o) == [t |-> "obj", o |-> o]

number(v) == v.t = "num"
isVar(v) == v.t = "var"

\* Python's truth value of v, as tested by `if v` / `a and b`.
Truthy(v) ==
    CASE v.t = "none" -> FALSE
      [] v.t = "num" -> v.n # 0
      [] v.t = "str" -> v.s # ""
      [] v.t = "seq" -> v.q # <<>>
      [] v.t = "style" -> DOMAIN v.st # {}
      [] OTHER -> TRUE

RECURSIVE gcd(_, _)
gcd(a, b) == IF b = 0 THEN a ELSE gcd(b, a % b)

\* The product of two numbers, in lowest terms.
NumMul(x, y) ==
    LET n == x.n * y.n
        d == x.d * y.d
        g == gcd(n, d)
    IN  Num(n \div g, d \div g)

\* ------------------------------------------------------------------ Style
\* Style(): a new, empty dict.
Style == <<>>

\* s.get(key)
get(s, key) == IF key \in DOMAIN s THEN s[key] ELSE None

\* style.update(s): the entries of s overwrite those of style.
update(style, s) == s @@ style

\* The relative font sizes and their ratios.
FONT_SIZE_VALUES ==
    "x-small" :> Num(3, 4) @@ "small" :> Num(8, 9) @@ "large" :> Num(6, 5)

\* v in FONT_SIZE_VALUES
InFontSizeValues(v) == v.t = "str" /\ v.s \in DOMAIN FONT_SIZE_VALUES

\* declarations(p, value): the value of a custom property, as a value of
\* property p.  It is handed the value alone, never the style: a variable
\* reference stays a reference.
declarations(p, value) == value

\* ------------------------------------------------------ resolve_variables
\* The inner loop over reversed(style_layers), at layer i (i = 0: the loop
\* ran out without a break).  The result is the value assigned to
\* new_style[p], or None when nothing is assigned.
RECURSIVE resolve_layer(_, _, _, _)
resolve_layer(p, style, style_layers, i) ==
    IF i = 0 THEN None
    ELSE LET layer == style_layers[i]
             lv == get(layer, p)
         IN  IF p \in DOMAIN layer /\ Truthy(lv)
             THEN IF isVar(lv)
                  THEN IF /\ lv.name \in DOMAIN style
                          /\ Truthy(declarations(p, style[lv.name]))
                          /\ ~isVar(declarations(p, style[lv.name]))
                       THEN declarations(p, style[lv.name])
                       ELSE resolve_layer(p, style, style_layers, i - 1)
                  ELSE lv
             ELSE resolve_layer(p, style, style_layers, i - 1)

\* A resolver that looks at the merged style alone and at no layer below.
resolve_variables_no_fallback(style, style_layers) ==
    LET resolves(p) == /\ style[p].name \in DOMAIN style
                       /\ Truthy(declarations(p, style[style[p].name]))
                       /\ ~isVar(declarations(p, style[style[p].name]))
    IN  [p \in {q \in DOMAIN style : isVar(style[q]) => resolves(q)} |->
            IF isVar(style[p]) THEN declarations(p, style[style[p].name])
            ELSE style[p]]

\* A resolver that leaves the reference where nothing resolves it.
resolve_variables_keep(style, style_layers) ==
    [p \in DOMAIN style |->
        IF /\ isVar(style[p])
           /\ resolve_layer(p, style, style_layers, Len(style_layers)) # None
        THEN resolve_layer(p, style, style_layers, Len(style_layers))
        ELSE style[p]]

\* The outer loop: a property that is assigned nothing is not a key of
\* new_style.
resolve_variables(style, style_layers) ==
    LET assigned == [p \in DOMAIN style |->
                        IF isVar(style[p])
                        THEN resolve_layer(p, style, style_layers, Len(style_layers))
                        ELSE style[p]]
    IN  [p \in {q \in DOMAIN style : assigned[q] # None} |-> assigned[p]]

\* ----------------------------------------------------------- merge_styles
\* A merge that starts from the first layer's dict in place of a new one.
merge_target_first(styles) == IF Len(styles) > 0 THEN 1 ELSE 0

\* The dict that merge_styles accumulates into: 0 is a new dict, i > 0 would
\* be the dict of layer i itself.
merge_target(styles) == 0

\* The for loop: style after update(s) for each s of styles[i..].
RECURSIVE update_all(_, _, _)
update_all(style, styles, i) ==
    IF i > Len(styles) THEN style
    ELSE update_all(update(style, styles[i]), styles, i + 1)

\* The for loop: abs_font_size after styles[i..].
RECURSIVE scan_font_size(_, _, _)
scan_font_size(abs_font_size, styles, i) ==
    IF i > Len(styles) THEN abs_font_size
    ELSE LET font_size == get(styles[i], "font-size")
         IN  scan_font_size(
                 IF Truthy(font_size) /\ number(font_size)
                 THEN font_size ELSE abs_font_size,
                 styles, i + 1)

\* style after the loop.
merged(styles) ==
    update_all(IF merge_target(styles) = 0 THEN Style
               ELSE styles[merge_target(styles)], styles, 1)

\* The font-size pass.
scale_font_size(abs_font_size, resolved_style) ==
    IF /\ Truthy(abs_font_size)
       /\ "font-size" \in DOMAIN resolved_style
       /\ InFontSizeValues(resolved_style["font-size"])
    THEN [resolved_style EXCEPT
             !["font-size"] = NumMul(abs_font_size, FONT_SIZE_VALUES[@.s])]
    ELSE resolved_style

color_props == {"color", "background-color", "text-color"}

\* A pass that puts the opacity in the place of the alpha channel.
composite_replace_alpha(color, opacity) ==
    IF Truthy(color) /\ color.an > 0
    THEN Color(color.r, color.g, color.b, opacity.n, opacity.d)
    ELSE color

\* One color under the opacity pass.
composite(color, opacity) ==
    IF Truthy(color) /\ color.an > 0
    THEN LET a == NumMul(Num(color.an, color.ad), opacity)
         IN  Color(color.r, color.g, color.b, a.n, a.d)
    ELSE color

\* The opacity pass.
apply_opacity(resolved_style) ==
    IF "opacity" \in DOMAIN resolved_style
    THEN [p \in DOMAIN resolved_style |->
            IF p \in color_props
            THEN composite(resolved_style[p], resolved_style["opacity"])
            ELSE resolved_style[p]]
    ELSE resolved_style

KeyError == [raised |-> TRUE, exc |-> "KeyError"]
Returned(style) == [raised |-> FALSE, style |-> style]

\* merge_styles(*styles): the Style it returns, or the KeyError of the
\* font-size pass reading a key that resolved_style does not have.
merge_styles(styles) ==
    LET abs_font_size == scan_font_size(None, styles, 1)
        resolved_style == resolve_variables(merged(styles), styles)
    IN  IF Truthy(abs_font_size) /\ "font-size" \notin DOMAIN resolved_style
        THEN KeyError
        ELSE Returned(apply_opacity(scale_font_size(abs_font_size, resolved_style)))

\* The layers after the call: the dict written to holds the merged style.
layers_after(styles) ==
    IF merge_target(styles) = 0 THEN styles
    ELSE [styles EXCEPT ![merge_target(styles)] = merged(styles)]

\* ------------------------------------------------------------- StyleNode
\* The nodes to style.  pseudo is "none" for the node itself.
Nodes ==
    { [id |-> "n1", name |-> "box", pseudo |-> "none", dark_mode |-> FALSE],
      [id |-> "n2", name |-> "line", pseudo |-> "none", dark_mode |-> FALSE] }

\* PseudoStyleNode(node, psuedo): every answer is the node's, but pseudo.
PseudoStyleNode(node, psuedo) == [node EXCEPT !.pseudo = psuedo]

\* --------------------------------------------------- compile_style_sheet
\* The selector of a rule that did not parse.
error == [error |-> TRUE]

\* selspec: the predicate of a selector and its specificity.
selspec(pred, specificity) == [pred |-> pred, specificity |-> specificity]

\* The compiled predicates, applied to a node.
Pred(pred, node) ==
    CASE pred = "box" -> node.name = "box" /\ node.pseudo = "none"
      [] pred = "*" -> node.pseudo = "none"
      [] pred = "box::after" -> node.name = "box" /\ node.pseudo = "after"
      [] pred = "*::after" -> node.pseudo = "after"

\* A compiled rule: (selspec, declarations).
Rule(sel, decl) == [selspec |-> sel, declarations |-> decl]

\* compile_style_sheet(*css): the rules of each text, in the order of the
\* texts.  A text stands for the rules the compiler makes of it.
RECURSIVE compile_style_sheet(_)
compile_style_sheet(texts) ==
    IF texts = <<>> THEN <<>>
    ELSE Head(texts) \o compile_style_sheet(Tail(texts))

\* ------------------------------------------------------ CompiledStyleSheet
\* Tuples compare item by item: a < b.
RECURSIVE tuple_lt(_, _)
tuple_lt(a, b) ==
    IF b = <<>> THEN FALSE
    ELSE IF a = <<>> THEN TRUE
    ELSE IF Head(a) # Head(b) THEN Head(a) < Head(b)
    ELSE tuple_lt(Tail(a), Tail(b))

\* A sort by order alone: the specificity is left out of the key.
key_lt_order_only(a, b) == a.order < b.order

\* A sort by specificity, and at equal specificity the later rule first.
key_lt_later_first(a, b) ==
    \/ tuple_lt(a.specificity, b.specificity)
    \/ a.specificity = b.specificity /\ a.order > b.order

\* key=operator.itemgetter(0, 1): (specificity, order) of a before that of b.
key_lt(a, b) ==
    \/ tuple_lt(a.specificity, b.specificity)
    \/ a.specificity = b.specificity /\ a.order < b.order

RECURSIVE insert_sorted(_, _)
insert_sorted(s, e) ==
    IF s = <<>> THEN <<e>>
    ELSE IF key_lt(e, Head(s)) THEN <<e>> \o s
    ELSE <<Head(s)>> \o insert_sorted(Tail(s), e)

\* sorted(items, key=...): stable, ascending.
RECURSIVE sorted(_)
sorted(items) ==
    IF items = <<>> THEN <<>>
    ELSE insert_sorted(sorted(SubSeq(items, 1, Len(items) - 1)), items[Len(items)])

\* enumerate(...): order counts every compiled rule, from 0.
enumerate_order(rules, i) == i - 1

\* A compile that stops at the first rule that did not parse.
keep_until_error(rules, i) == \A j \in 1..i : rules[j].selspec # error

\* if selspec != "error": whether rule i of the compiled rules is kept.
keep(rules, i) == rules[i].selspec # error

\* CompiledStyleSheet(*css).selectors
CompiledStyleSheet(texts) ==
    LET rules == compile_style_sheet(texts)
        kept == SelectSeq([i \in 1..Len(rules) |-> i], LAMBDA i : keep(rules, i))
    IN  sorted([k \in 1..Len(kept) |->
                  [specificity |-> rules[kept[k]].selspec.specificity,
                   order |-> enumerate_order(rules, kept[k]),
                   declarations |-> rules[kept[k]].declarations,
                   pred |-> rules[kept[k]].selspec.pred]])

\* The positions in sel of the rules whose predicate holds of node.
matching(sel, node) ==
    SelectSeq([i \in 1..Len(sel) |-> i], LAMBDA i : Pred(sel[i].pred, node))

\* The declarations of the rules at the positions m, in the order of sel.
declarations_at(sel, m) == [k \in 1..Len(m) |-> sel[m[k]].declarations]

\* The declarations of the rules whose predicate holds of node.
matching_declarations(sel, node) == declarations_at(sel, matching(sel, node))

\* sel after merge_styles ran on the declarations of the rules at positions
\* m, which are the layers from position skip + 1 on.
selectors_after(sel, m, skip, layers) ==
    LET after == layers_after(layers)
    IN  IF after = layers THEN sel
        ELSE [i \in 1..Len(sel) |->
                IF \E k \in 1..Len(m) : m[k] = i
                THEN [sel[i] EXCEPT !.declarations =
                         after[skip + CHOOSE k \in 1..Len(m) : m[k] = i]]
                ELSE sel[i]]

\* The two opaque entries of the style of a node.
bookkeeping(node) ==
    "-gaphor-style-node" :> Obj(node.id) @@
    "-gaphor-compiled-style-sheet" :> Obj("self")

\* The styles of a match that adds the "::after" entry without looking at it.
match_layers_always_after(node, after_style, declared) ==
    << "::after" :> SubStyle(after_style), bookkeeping(node) >> \o declared

\* The styles given to the second merge_styles call of match.
match_layers(node, after_style, declared) ==
    << IF DOMAIN after_style # {} THEN "::after" :> SubStyle(after_style)
       ELSE Style,
       bookkeeping(node) >> \o declared

\* CompiledStyleSheet.match(node): what the call returns (ret) and the
\* rules after it (selectors).
match(sel, node) ==
    LET after_matching == matching(sel, PseudoStyleNode(node, "after"))
        after_layers == declarations_at(sel, after_matching)
        sel1 == selectors_after(sel, after_matching, 0, after_layers)
        after_style == merge_styles(after_layers)
    IN  IF after_style.raised
        THEN [ret |-> after_style, selectors |-> sel1]
        ELSE LET node_matching == matching(sel1, node)
                 layers == match_layers(node, after_style.style,
                                        declarations_at(sel1, node_matching))
             IN  [ret |-> merge_styles(layers),
                  selectors |-> selectors_after(sel1, node_matching, 2, layers)]

\* ----------------------------------------------------------------- actions
\* matched: the node of the latest match call and what the call returned.
NotMatched == [node |-> "none"]
Matched(node, ret) == [node |-> node.id, ret |-> ret]

\* The rules flat, cut into n texts at the positions cuts.
split(flat, cuts, n) ==
    [j \in 1..n |->
        SubSeq(flat,
               (IF j = 1 THEN 0 ELSE cuts[j - 1]) + 1,
               IF j = n THEN Len(flat) ELSE cuts[j])]

\* The ways to cut k rules into n texts.
Cuts(k, n) ==
    {c \in [1..(n - 1) -> 0..k] : \A j \in 1..(n - 2) : c[j] <= c[j + 1]}

\* The state after CompiledStyleSheet(*css), for at most MaxRules rules of R
\* written as n texts.
Constructed(R, n) ==
    \E k \in 0..MaxRules : \E flat \in [1..k -> R] : \E cuts \in Cuts(k, n) :
        /\ css = split(flat, cuts, n)
        /\ selectors = CompiledStyleSheet(css)
        /\ matched = NotMatched

\* style_sheet.match(node)
Match(node) ==
    LET m == match(selectors, node)
    IN  /\ matched' = Matched(node, m.ret)
        /\ selectors' = m.selectors
        /\ UNCHANGED css

Next == \E node \in Nodes : Match(node)

\* ------------------------------------------------------------ the cascade
\* Rules that set line-width to two values: for the node box with two
\* specificities, and for every node.  They are written as NumTexts texts.
CascadeSpecificities == {<<0, 1>>, <<1, 0>>}
CascadeDeclarations ==
    { "line-width" :> Num(1, 1),
      "line-width" :> Num(2, 1) }
CascadeRules ==
    { Rule(selspec("box", s), d) : s \in CascadeSpecificities, d \in CascadeDeclarations }
    \cup { Rule(selspec("*", <<0, 1>>), d) : d \in CascadeDeclarations }
    \cup {Rule(error, Style)}

Init == Constructed(CascadeRules, NumTexts)

Spec == Init /\ [][Next]_vars

\* ---------------------------------------------------- variable references
\* Rules that set line-width and the custom properties --x and --y to numbers
\* (0 among them) and to references, in one text.
VarPreds == {"box", "*::after"}
VarDeclarations ==
    { "line-width" :> Var("--x"),
      "line-width" :> Var("--y"),
      "line-width" :> Num(0, 1),
      "line-width" :> Num(2, 1),
      "--x" :> Num(0, 1),
      "--x" :> Var("--y"),
      "--y" :> Num(5, 1) }
VarRules ==
    { Rule(selspec(p, <<0, 1>>), d) : p \in VarPreds, d \in VarDeclarations }
    \cup {Rule(error, Style)}

InitVars == Constructed(VarRules, 1)

SpecVars == InitVars /\ [][Next]_vars

\* ------------------------------------------------------------------ opacity
\* Rules that set opacity, the three colors (with alpha 1, 1/2 and 0) and
\* line-width.
OpacityDeclarations ==
    { "opacity" :> Num(1, 2),
      "opacity" :> Num(0, 1),
      "opacity" :> Var("--o"),
      "color" :> Color(1, 0, 0, 1, 1) @@ "background-color" :> Color(0, 1, 0, 0, 1)
          @@ "text-color" :> Color(0, 0, 1, 1, 2),
      "color" :> Color(0, 0, 1, 1, 2) @@ "line-width" :> Num(2, 1),
      "opacity" :> Num(1, 2) @@ "text-color" :> Color(0, 0, 0, 1, 1) }
OpacityRules ==
    { Rule(selspec(p, <<0, 1>>), d) : p \in VarPreds, d \in OpacityDeclarations }
    \cup {Rule(error, Style)}

InitOpacity == Constructed(OpacityRules, 1)

SpecOpacity == InitOpacity /\ [][Next]_vars

\* ---------------------------------------------------------------- font size
\* Rules that set font-size to numbers (0 among them), to a relative size and
\* to a reference, and rules that define the custom property referred to.
FontDeclarations ==
    { "font-size" :> Num(12, 1),
      "font-size" :> Num(10, 1),
      "font-size" :> Num(0, 1),
      "font-size" :> Str("small"),
      "font-size" :> Var("--fs"),
      "--fs" :> Str("large"),
      "--fs" :> Num(14, 1) }
FontRules ==
    { Rule(selspec(p, <<0, 1>>), d) : p \in VarPreds, d \in FontDeclarations }
    \cup {Rule(error, Style)}

InitFont == Constructed(FontRules, 1)

SpecFont == InitFont /\ [][Next]_vars

\* --------------------------------------------------------------- all passes
\* Rules whose values the three passes rewrite: references, relative font
\* sizes and colors under an opacity.
PassDeclarations ==
    { "--x" :> Num(3, 1) @@ "line-width" :> Var("--x") @@ "font-size" :> Str("small"),
      "font-size" :> Num(12, 1),
      "opacity" :> Num(1, 2) @@ "color" :> Color(1, 0, 0, 1, 1),
      "line-width" :> Var("--y"),
      "color" :> Color(0, 0, 1, 1, 2) @@ "line-width" :> Num(2, 1) }
PassRules ==
    { Rule(selspec(p, <<0, 1>>), d) : p \in VarPreds, d \in PassDeclarations }
    \cup {Rule(error, Style)}

InitPasses == Constructed(PassRules, 1)

SpecPasses == InitPasses /\ [][Next]_vars

\* ------------------------------------------------- vocabulary of the claims
\* The rules as the compiler handed them over, in declaration order.
Compiled == compile_style_sheet(css)

\* The text that rule i of Compiled was written in.
TextOf(i) ==
    CHOOSE j \in 1..Len(css) :
        LET before == Len(compile_style_sheet(SubSeq(css, 1, j - 1)))
        IN  before < i /\ i <= before + Len(css[j])

HasMatched == matched.node # "none"
MatchedNode == CHOOSE n \in Nodes : n.id = matched.node
HasStyle == HasMatched /\ ~matched.ret.raised
TheStyle == matched.ret.style

\* Rule i parsed and its predicate holds of node.
Applies(i, node) ==
    Compiled[i].selspec # error /\ Pred(Compiled[i].selspec.pred, node)

Sets(i, p) == p \in DOMAIN Compiled[i].declarations
SetsValue(i, p) == Sets(i, p) /\ ~isVar(Compiled[i].declarations[p])
Specificity(i) == Compiled[i].selspec.specificity

\* Specificities are pairs, the first item counts most.
Outranks(a, b) == a[1] > b[1] \/ (a[1] = b[1] /\ a[2] > b[2])

\* Every property that some rule sets.
Properties == UNION {DOMAIN Compiled[i].declarations : i \in 1..Len(Compiled)}

\* Neither the opacity pass nor the font-size pass rewrites value v of p in
\* style.
Untouched(p, v, style) ==
    /\ p \in color_props => "opacity" \notin DOMAIN style
    /\ p = "font-size" => ~InFontSizeValues(v)

\* The rules of node that set p, other than rule i.
Rivals(i, p, node) ==
    {j \in 1..Len(Compiled) \ {i} : Applies(j, node) /\ Sets(j, p)}

\* Rule i comes after rule j in the cascade.
Above(i, j) ==
    \/ Outranks(Specificity(i), Specificity(j))
    \/ Specificity(i) = Specificity(j) /\ i > j

\* Some rule of node sets p.
Defined(p, node) == \E i \in 1..Len(Compiled) : Applies(i, node) /\ Sets(i, p)

\* The last rule of node, in cascade order, that sets p.
Top(p, node) ==
    CHOOSE i \in 1..Len(Compiled) :
        /\ Applies(i, node) /\ Sets(i, p)
        /\ \A j \in Rivals(i, p, node) : Above(i, j)

\* What the cascade alone makes of p: the value of its last rule.
Cascaded(p, node) == Compiled[Top(p, node)].declarations[p]

\* v refers to a custom property that the cascade gives a value.
Resolves(v, node) ==
    /\ isVar(v)
    /\ Defined(v.name, node)
    /\ ~isVar(Cascaded(v.name, node))

\* Rule i gives a value for p: its own, or that of the custom property it
\* refers to.
Yields(i, p, node) ==
    /\ Applies(i, node) /\ Sets(i, p)
    /\ SetsValue(i, p) \/ Resolves(Compiled[i].declarations[p], node)

Yielded(i, p, node) ==
    IF SetsValue(i, p) THEN Compiled[i].declarations[p]
    ELSE Cascaded(Compiled[i].declarations[p].name, node)

\* The first rule to give a value for p, from the last rule of the cascade
\* down.
FirstYielding(p, node) ==
    CHOOSE i \in 1..Len(Compiled) :
        /\ Yields(i, p, node)
        /\ \A j \in 1..Len(Compiled) \ {i} : Yields(j, p, node) => Above(i, j)

AfterNode == PseudoStyleNode(MatchedNode, "after")

\* --------------------------------------------------------------------- C1
\* The rule at position j of selectors comes after the one at position i.
After(i, j) ==
    \/ Outranks(selectors[j].specificity, selectors[i].specificity)
    \/ /\ selectors[j].specificity = selectors[i].specificity
       /\ selectors[j].order > selectors[i].order

\* C1: the rules are kept in ascending order of (specificity, order), and
\* once a node was matched, a rule that sets p to a value and whose
\* specificity is higher than that of every other rule of the node setting p
\* gives p its value, wherever the other rules were declared (unless the
\* opacity or font-size pass rewrites p).
C1_SpecificityPrecedence ==
    /\ \A i, j \in 1..Len(selectors) : i < j => After(i, j)
    /\ HasStyle =>
         \A p \in Properties : \A i \in 1..Len(Compiled) :
            ( /\ Applies(i, MatchedNode)
              /\ SetsValue(i, p)
              /\ \A j \in Rivals(i, p, MatchedNode) :
                    Outranks(Specificity(i), Specificity(j))
              /\ Untouched(p, Compiled[i].declarations[p], TheStyle) )
            => /\ p \in DOMAIN TheStyle
               /\ TheStyle[p] = Compiled[i].declarations[p]

\* A rule of higher specificity, declared before a rule of lower specificity
\* that sets the same property to another value, gave the node its value.
C1_Witness ==
    /\ HasStyle
    /\ \E i, j \in 1..Len(Compiled) :
        /\ i < j
        /\ Applies(i, MatchedNode) /\ Applies(j, MatchedNode)
        /\ Outranks(Specificity(i), Specificity(j))
        /\ SetsValue(i, "line-width") /\ SetsValue(j, "line-width")
        /\ Compiled[i].declarations["line-width"] # Compiled[j].declarations["line-width"]
        /\ TheStyle["line-width"] = Compiled[i].declarations["line-width"]

\* --------------------------------------------------------------------- C2
\* C2: the order indexes are unique and a rule of a later text has a higher
\* one than every rule of an earlier text; and once a node was matched, of
\* two rules of equal specificity that set p to a value, the one declared
\* later gives p its value, when no other rule of the node that sets p
\* outranks it or ties with it from a later declaration.
C2_SourceOrderTieBreak ==
    /\ \A i, j \in 1..Len(selectors) :
          /\ i # j => selectors[i].order # selectors[j].order
          /\ TextOf(selectors[i].order + 1) < TextOf(selectors[j].order + 1)
                => selectors[i].order < selectors[j].order
    /\ HasStyle =>
         \A p \in Properties : \A i, j \in 1..Len(Compiled) :
            ( /\ i < j
              /\ Applies(i, MatchedNode) /\ Applies(j, MatchedNode)
              /\ SetsValue(i, p) /\ SetsValue(j, p)
              /\ Specificity(i) = Specificity(j)
              /\ \A k \in Rivals(j, p, MatchedNode) :
                    \/ Outranks(Specificity(j), Specificity(k))
                    \/ Specificity(j) = Specificity(k) /\ k < j
              /\ Untouched(p, Compiled[j].declarations[p], TheStyle) )
            => /\ p \in DOMAIN TheStyle
               /\ TheStyle[p] = Compiled[j].declarations[p]

\* Two rules of equal specificity, the first in the first text and the
\* second in a later text, set line-width to different values, and the node
\* has the value of the second.
C2_Witness ==
    /\ HasStyle
    /\ \E i, j \in 1..Len(Compiled) :
        /\ TextOf(i) < TextOf(j)
        /\ Applies(i, MatchedNode) /\ Applies(j, MatchedNode)
        /\ Specificity(i) = Specificity(j)
        /\ SetsValue(i, "line-width") /\ SetsValue(j, "line-width")
        /\ Compiled[i].declarations["line-width"] # Compiled[j].declarations["line-width"]
        /\ TheStyle["line-width"] = Compiled[j].declarations["line-width"]

\* --------------------------------------------------------------------- C9
\* The texts without the rules that did not parse.
WithoutErrors(texts) ==
    [j \in DOMAIN texts |-> SelectSeq(texts[j], LAMBDA r : r.selspec # error)]

\* A rule sequence without its order indexes.
Unnumbered(sel) ==
    [i \in DOMAIN sel |->
        <<sel[i].specificity, sel[i].declarations, sel[i].pred>>]

\* C9: the style sheet holds each rule that parsed once, under its position
\* in the compiler's output, and nothing else; and its rules are in the order
\* they would be in had the other rules not been in the texts.
C9_ErrorRulesDropped ==
    /\ Len(selectors) = Cardinality({i \in 1..Len(Compiled) : Compiled[i].selspec # error})
    /\ \A k \in 1..Len(selectors) :
          LET i == selectors[k].order + 1
          IN  /\ i \in 1..Len(Compiled)
              /\ Compiled[i].selspec # error
              /\ selectors[k].pred = Compiled[i].selspec.pred
              /\ selectors[k].specificity = Compiled[i].selspec.specificity
              /\ selectors[k].declarations = Compiled[i].declarations
    /\ \A k, l \in 1..Len(selectors) : k # l => selectors[k].order # selectors[l].order
    /\ Unnumbered(selectors) = Unnumbered(CompiledStyleSheet(WithoutErrors(css)))

\* A rule that did not parse stands between two rules that did, and both
\* are in the style sheet.
C9_Witness ==
    /\ Len(Compiled) = 3
    /\ Compiled[1].selspec # error
    /\ Compiled[2].selspec = error
    /\ Compiled[3].selspec # error
    /\ Len(selectors) = 2
    /\ HasStyle

\* --------------------------------------------------------------------- C3
\* The style of the "after" pseudo element, empty when there is none.
AfterStyle == IF "::after" \in DOMAIN TheStyle THEN TheStyle["::after"].st ELSE Style

\* C3: no value of a returned style, nor of the style under "::after", is a
\* variable reference; and a property that the cascade leaves with a
\* reference, and for which no rule of the node gives a value, is not a key of
\* the style.
C3_NoVariableInStyle ==
    HasStyle =>
        /\ \A p \in DOMAIN TheStyle : ~isVar(TheStyle[p])
        /\ \A p \in DOMAIN AfterStyle : ~isVar(AfterStyle[p])
        /\ \A p \in Properties :
              /\ ( /\ Defined(p, MatchedNode)
                   /\ isVar(Cascaded(p, MatchedNode))
                   /\ \A i \in 1..Len(Compiled) : ~Yields(i, p, MatchedNode) )
                 => p \notin DOMAIN TheStyle
              /\ ( /\ Defined(p, AfterNode)
                   /\ isVar(Cascaded(p, AfterNode))
                   /\ \A i \in 1..Len(Compiled) : ~Yields(i, p, AfterNode) )
                 => p \notin DOMAIN AfterStyle

\* The node and its pseudo element both have line-width set to a reference
\* to a custom property that no rule defines, and neither style has a
\* line-width.
C3_Witness ==
    /\ HasStyle
    /\ Defined("line-width", MatchedNode)
    /\ isVar(Cascaded("line-width", MatchedNode))
    /\ \A i \in 1..Len(Compiled) : ~Yields(i, "line-width", MatchedNode)
    /\ "line-width" \notin DOMAIN TheStyle
    /\ Defined("line-width", AfterNode)
    /\ isVar(Cascaded("line-width", AfterNode))
    /\ \A i \in 1..Len(Compiled) : ~Yields(i, "line-width", AfterNode)
    /\ Defined("--y", AfterNode)
    /\ "--y" \in DOMAIN AfterStyle
    /\ "line-width" \notin DOMAIN AfterStyle

\* --------------------------------------------------------------------- C4
\* C4: when the last rule of the node that sets p sets it to a reference to
\* a custom property, and the cascade gives that custom property a value
\* (the value of the last rule that defines it), the style has p, with that
\* value (unless the opacity or font-size pass rewrites p).
C4_VariableFallbackChain ==
    HasStyle =>
        \A p \in Properties :
            ( /\ Defined(p, MatchedNode)
              /\ Resolves(Cascaded(p, MatchedNode), MatchedNode)
              /\ Untouched(p, Cascaded(Cascaded(p, MatchedNode).name, MatchedNode),
                           TheStyle) )
            => /\ p \in DOMAIN TheStyle
               /\ TheStyle[p] = Cascaded(Cascaded(p, MatchedNode).name, MatchedNode)

\* -------------------------------------------------------------------- C10
\* C10: when the cascade leaves p with a reference that does not resolve,
\* the style has the value of the first rule that gives one for p, going
\* down from the last rule of the cascade, whatever that value is; and the
\* style has no p when no rule gives one.
C10_FallbackToLowerLayers ==
    HasStyle =>
        \A p \in Properties :
            ( /\ Defined(p, MatchedNode)
              /\ isVar(Cascaded(p, MatchedNode))
              /\ ~Resolves(Cascaded(p, MatchedNode), MatchedNode) )
            => IF \E i \in 1..Len(Compiled) : Yields(i, p, MatchedNode)
               THEN /\ p \in DOMAIN TheStyle
                    /\ TheStyle[p] =
                          Yielded(FirstYielding(p, MatchedNode), p, MatchedNode)
               ELSE p \notin DOMAIN TheStyle

\* --------------------------------------------------------------------- C5
\* The keys of a style that no rule sets.
Reserved == {"::after", "-gaphor-style-node", "-gaphor-compiled-style-sheet"}

\* Rule i holds of the "after" pseudo element of node and not of node.
AfterOnly(i, node) ==
    Applies(i, PseudoStyleNode(node, "after")) /\ ~Applies(i, node)

\* The texts without the rules that hold of the pseudo element of node only.
WithoutAfterOnly(texts, node) ==
    [j \in DOMAIN texts |->
        SelectSeq(texts[j],
                  LAMBDA r : \/ r.selspec = error
                             \/ Pred(r.selspec.pred, node)
                             \/ ~Pred(r.selspec.pred, PseudoStyleNode(node, "after")))]

\* A style without its reserved keys.
Own(style) == [p \in DOMAIN style \ Reserved |-> style[p]]

\* What merge_styles makes of the declarations of the rules that hold of the
\* pseudo element.
AfterMerged == merge_styles(matching_declarations(selectors, AfterNode))

\* C5: every key of the node's style that is not reserved is set by a rule
\* that holds of the node itself, and the style is what it is for the style
\* sheet without the rules that hold of the pseudo element only; "::after" is
\* a key exactly when the merged and resolved declarations of the rules that
\* hold of the pseudo element are not empty, and its value is that style.
C5_PseudoElementIsolation ==
    HasStyle =>
        /\ \A p \in DOMAIN TheStyle \ Reserved : Defined(p, MatchedNode)
        /\ Own(TheStyle) =
              Own(match(CompiledStyleSheet(WithoutAfterOnly(css, MatchedNode)),
                        MatchedNode).ret.style)
        /\ "::after" \in DOMAIN TheStyle <=> DOMAIN AfterMerged.style # {}
        /\ "::after" \in DOMAIN TheStyle =>
              TheStyle["::after"] = SubStyle(AfterMerged.style)

\* A rule of the pseudo element alone sets line-width to a value: the value
\* is under "::after" and the node itself, which has rules too, has no
\* line-width.
C5_Witness ==
    /\ HasStyle
    /\ \E i \in 1..Len(Compiled) :
          /\ AfterOnly(i, MatchedNode)
          /\ SetsValue(i, "line-width")
          /\ Truthy(Compiled[i].declarations["line-width"])
    /\ "::after" \in DOMAIN TheStyle
    /\ "line-width" \in DOMAIN TheStyle["::after"].st
    /\ "line-width" \notin DOMAIN TheStyle
    /\ \E i \in 1..Len(Compiled) : Applies(i, MatchedNode)

\* --------------------------------------------------------------------- C6
\* Color c with its alpha channel multiplied by the number o.
Faded(c, o, result) ==
    /\ result.t = "color"
    /\ result.r = c.r /\ result.g = c.g /\ result.b = c.b
    /\ result.an * (c.ad * o.d) = result.ad * (c.an * o.n)

\* The style st, made of the rules of node, is the cascade with the opacity
\* applied once to the colors of non-zero alpha and to nothing else.
Composited(st, node) ==
    \A p \in Properties :
        (Defined(p, node) /\ ~isVar(Cascaded(p, node))) =>
            /\ p \in DOMAIN st
            /\ IF /\ p \in {"color", "background-color", "text-color"}
                  /\ "opacity" \in DOMAIN st
                  /\ Cascaded(p, node).an > 0
               THEN Faded(Cascaded(p, node), st["opacity"], st[p])
               ELSE st[p] = Cascaded(p, node)

\* C6: with an opacity o in the style, color, background-color and
\* text-color of alpha a > 0 keep their three channels and have alpha a * o;
\* a color of alpha 0 and every other property are as the cascade left them,
\* and so is every color when the style has no opacity.  This holds of the
\* node's style and of the style of its pseudo element.
C6_OpacityCompositing ==
    HasStyle => Composited(TheStyle, MatchedNode) /\ Composited(AfterStyle, AfterNode)

\* The style has opacity 1/2: the color of alpha 1 has alpha 1/2, the
\* text-color of alpha 1/2 has alpha 1/4 and the background-color of alpha 0
\* is as it was.
C6_Witness ==
    /\ HasStyle
    /\ {"opacity", "color", "background-color", "text-color"} \subseteq DOMAIN TheStyle
    /\ TheStyle["opacity"] = Num(1, 2)
    /\ Cascaded("color", MatchedNode) = Color(1, 0, 0, 1, 1)
    /\ TheStyle["color"] = Color(1, 0, 0, 1, 2)
    /\ Cascaded("text-color", MatchedNode) = Color(0, 0, 1, 1, 2)
    /\ TheStyle["text-color"] = Color(0, 0, 1, 1, 4)
    /\ TheStyle["background-color"] = Color(0, 1, 0, 0, 1)

\* --------------------------------------------------------------------- C7
\* The layers that match gave merge_styles for the node's style, and the
\* style after the variables were resolved.
TheLayers ==
    match_layers(MatchedNode, AfterStyle, matching_declarations(selectors, MatchedNode))
TheResolved == resolve_variables(merged(TheLayers), TheLayers)

\* The rules of the node that set font-size to a number.
SizedBy == {i \in 1..Len(Compiled) :
              /\ Applies(i, MatchedNode)
              /\ Sets(i, "font-size")
              /\ number(Compiled[i].declarations["font-size"])}

\* The number of the last of them in the cascade.
AbsoluteSize ==
    Compiled[CHOOSE i \in SizedBy : \A j \in SizedBy \ {i} : Above(i, j)]
        .declarations["font-size"]

\* result = ratio * size
Scaled(ratio, size, result) ==
    /\ result.t = "num"
    /\ result.n * (ratio.d * size.d) = result.d * (ratio.n * size.n)

\* C7: when the resolved font-size is a relative size of ratio r and some
\* layer sets font-size to a number, the style's font-size is r times the
\* number of the last such layer; when no layer does, it is the relative size
\* itself; and a resolved font-size that is a number stays as it is.
C7_FontSizeScaling ==
    (HasStyle /\ "font-size" \in DOMAIN TheResolved) =>
        LET size == TheResolved["font-size"]
        IN  /\ "font-size" \in DOMAIN TheStyle
            /\ IF InFontSizeValues(size)
               THEN IF SizedBy # {}
                    THEN Scaled(FONT_SIZE_VALUES[size.s], AbsoluteSize,
                                TheStyle["font-size"])
                    ELSE TheStyle["font-size"] = size
               ELSE TheStyle["font-size"] = size

\* --------------------------------------------------------------------- C8
\* C8: a match call leaves the rule sequence as the constructor made it,
\* every rule's declarations included, and a match of the node that was
\* matched last returns a style equal to the one returned then.
C8_MatchHasNoSideEffects ==
    [][ /\ selectors = CompiledStyleSheet(css)
        /\ selectors' = selectors
        /\ (HasMatched /\ matched'.node = matched.node) => matched'.ret = matched.ret
      ]_vars

\* A match resolved a reference, scaled a relative font size and composited
\* a color, and the rules still hold the reference, the relative size and the
\* color they were written with.
C8_Witness ==
    /\ HasStyle
    /\ {"line-width", "font-size", "color"} \subseteq DOMAIN TheStyle
    /\ TheStyle["line-width"] = Num(3, 1)
    /\ TheStyle["font-size"] = Num(32, 3)
    /\ TheStyle["color"] = Color(1, 0, 0, 1, 2)
    /\ Len(selectors) = 3
    /\ \E k \in 1..3 :
          /\ {"line-width", "font-size"} \subseteq DOMAIN selectors[k].declarations
          /\ selectors[k].declarations["line-width"] = Var("--x")
          /\ selectors[k].declarations["font-size"] = Str("small")
    /\ \E k \in 1..3 :
          /\ "color" \in DOMAIN selectors[k].declarations
          /\ selectors[k].declarations["color"] = Color(1, 0, 0, 1, 1)

\* -------------------------------------------------------------------- C11
\* C11: when the cascade leaves p with a reference to a custom property, that
\* custom property with a reference to a second one, and the second one with
\* a value, the style has p, with the value of the second custom property
\* (unless the opacity or font-size pass rewrites p).
C11_ChainedCustomProperties ==
    HasStyle =>
        \A p \in Properties :
            ( /\ Defined(p, MatchedNode)
              /\ isVar(Cascaded(p, MatchedNode))
              /\ Defined(Cascaded(p, MatchedNode).name, MatchedNode)
              /\ Resolves(Cascaded(Cascaded(p, MatchedNode).name, MatchedNode),
                          MatchedNode) )
            => LET second == Cascaded(Cascaded(p, MatchedNode).name, MatchedNode).name
               IN  Untouched(p, Cascaded(second, MatchedNode), TheStyle)
                   => /\ p \in DOMAIN TheStyle
                      /\ TheStyle[p] = Cascaded(second, MatchedNode)

\* -------------------------------------------------------------------- C12
\* Some rule of node sets font-size to a number that is not 0: the layer scan
\* records an absolute font size.
Recorded(node) ==
    \E i \in 1..Len(Compiled) :
        /\ Applies(i, node)
        /\ Sets(i, "font-size")
        /\ number(Compiled[i].declarations["font-size"])
        /\ Compiled[i].declarations["font-size"].n # 0

\* The layers of the pseudo element and their style after the variables were
\* resolved.
AfterLayers == matching_declarations(selectors, AfterNode)
AfterResolved == resolve_variables(merged(AfterLayers), AfterLayers)

\* C12: no match call raises, whatever mix of numbers, relative sizes and
\* references, resolving or not, the layers hold; and whenever the layer scan
\* recorded an absolute font size, font-size is a key of the style after the
\* variables were resolved, for the node and for its pseudo element.
C12_NeverRaises ==
    HasMatched =>
        /\ ~matched.ret.raised
        /\ Recorded(MatchedNode) => "font-size" \in DOMAIN TheResolved
        /\ Recorded(AfterNode) => "font-size" \in DOMAIN AfterResolved

\* The cascade leaves font-size with a reference that does not resolve, a
\* lower layer sets it to a number, and the match returned a style with a
\* font-size.
C12_Witness ==
    /\ HasStyle
    /\ Recorded(MatchedNode)
    /\ isVar(Cascaded("font-size", MatchedNode))
    /\ ~Resolves(Cascaded("font-size", MatchedNode), MatchedNode)
    /\ "font-size" \in DOMAIN TheStyle

====
